---- MODULE Spec2Model ----
(***************************************************************************)
(* Cordia coordination servers: SignalingState (signaling-server) and      *)
(* VoiceState (beacon-server), with the message handlers that drive them,  *)
(* and the Redis presence backend of the beacon-server.                    *)
(***************************************************************************)
EXTENDS Integers, Sequences, FiniteSets, Bags, TLC

\* ------------------------------------------------------------------------
\* Bounds of the model
\* ------------------------------------------------------------------------
MaxPeers == 2
MaxServers == 2
MaxKeys == 1
MaxConns == 2
MaxUsers == 2
MaxChats == 1
MaxHints == 1
MaxMessages == 4
TtlSecs == 2
MaxKeyLen == 1
MaxClients == 2
MaxCalls == 3
MaxIps == 2
MaxLimit == 2
MaxTracked == 4
MaxRing == 2
MaxChan == 1
MaxLevels == 1

PeerIds == 1..MaxPeers
ServerIds == 1..MaxServers
SigningPubkeys == 1..MaxKeys
ConnIds == 1..MaxConns
UserIds == 1..MaxUsers
ChatIds == 1..MaxChats
Hints == 1..MaxHints

\* Option<SigningPubkey>::None
NoKey == 0
OptKeys == SigningPubkeys \cup {NoKey}

VARIABLES
    peers,            \* PeerId -> PeerConnection
    servers,          \* ServerId -> set of PeerId
    signing_servers,  \* SigningPubkey -> set of PeerId
    peer_senders,     \* PeerId -> WebSocketSender (the ConnId that owns the channel)
    conn_peers,       \* ConnId -> set of PeerId
    voice_chats,      \* (ServerId, chat_id) -> Seq of VoicePeer
    closed,           \* connections whose socket-close cleanup has run
    received,         \* number of frames received so far, over all connections
    sent,             \* bag of the frames handed to senders by the last call
    ret,              \* value returned by the last call
    last,             \* the last call and its arguments
    redis,            \* the Redis keyspace of the presence backend
    history,          \* the presence calls made so far for one observed user
    calls,            \* the presence calls whose commands are still being sent
    tracker,          \* ConnectionTracker of the signaling-server
    capture           \* audio capture of the desktop client: state, threads, channels

sigvars == <<peers, servers, signing_servers, peer_senders, conn_peers>>
presvars == <<redis, history, calls>>
vars == <<peers, servers, signing_servers, peer_senders, conn_peers,
          voice_chats, closed, received, sent, ret, last, redis, history, calls,
          tracker, capture>>

\* ------------------------------------------------------------------------
\* HashMap / HashSet primitives
\* ------------------------------------------------------------------------
EmptyMap == [x \in {} |-> {}]

MapInsert(m, k, v) == [x \in (DOMAIN m) \cup {k} |-> IF x = k THEN v ELSE m[x]]

MapRemove(m, k) == [x \in (DOMAIN m) \ {k} |-> m[x]]

\* entry(k).or_insert_with(HashSet::new).insert(e)
EntryInsert(m, k, e) ==
    MapInsert(m, k, (IF k \in DOMAIN m THEN m[k] ELSE {}) \cup {e})

\* get_mut(k): remove e; drop the set when is_empty()
RemoveAndPrune(m, k, e) ==
    IF k \in DOMAIN m
    THEN IF m[k] \ {e} = {} THEN MapRemove(m, k) ELSE [m EXCEPT ![k] = m[k] \ {e}]
    ELSE m

\* the set at key k, empty when the key is absent
Members(m, k) == IF k \in DOMAIN m THEN m[k] ELSE {}

\* the elements of a Vec
ListSet(s) == {s[i] : i \in 1..Len(s)}

\* the orders in which a HashSet may be iterated
IterOrders(S) ==
    {f \in [1..Cardinality(S) -> S] : \A i, j \in 1..Cardinality(S) : i # j => f[i] # f[j]}

\* ------------------------------------------------------------------------
\* SignalingState
\* ------------------------------------------------------------------------
PeerConnection(peer_id, server_id, signing_pubkey, conn_id) ==
    [peer_id |-> peer_id, server_id |-> server_id,
     signing_pubkey |-> signing_pubkey, conn_id |-> conn_id]

SignalingState ==
    [peers |-> peers, servers |-> servers, signing_servers |-> signing_servers,
     peer_senders |-> peer_senders, conn_peers |-> conn_peers]

SignalingState_new ==
    [peers |-> EmptyMap, servers |-> EmptyMap, signing_servers |-> EmptyMap,
     peer_senders |-> EmptyMap, conn_peers |-> EmptyMap]

validate_peer_connection_any_conn(st, peer_id, conn_id) ==
    peer_id \in DOMAIN st.peers

validate_peer_connection(st, peer_id, conn_id) ==
    IF peer_id \in DOMAIN st.peers
    THEN st.peers[peer_id].conn_id = conn_id
    ELSE FALSE

register_peer_no_conn_index(st, peer_id, server_id, signing_pubkey, conn_id) ==
    [st EXCEPT
       !.peers = MapInsert(st.peers, peer_id,
                           PeerConnection(peer_id, server_id, signing_pubkey, conn_id)),
       !.servers = EntryInsert(st.servers, server_id, peer_id),
       !.signing_servers =
           IF signing_pubkey # NoKey
           THEN EntryInsert(st.signing_servers, signing_pubkey, peer_id)
           ELSE st.signing_servers]

\* the state after register_peer
register_peer(st, peer_id, server_id, signing_pubkey, conn_id) ==
    [st EXCEPT
       !.peers = MapInsert(st.peers, peer_id,
                           PeerConnection(peer_id, server_id, signing_pubkey, conn_id)),
       !.conn_peers = EntryInsert(st.conn_peers, conn_id, peer_id),
       !.servers = EntryInsert(st.servers, server_id, peer_id),
       !.signing_servers =
           IF signing_pubkey # NoKey
           THEN EntryInsert(st.signing_servers, signing_pubkey, peer_id)
           ELSE st.signing_servers]

register_peer_others_unfiltered(order, peer_id) == order

\* the Vec register_peer returns: peers_in_server iterated in `order`, filtered
register_peer_others(order, peer_id) ==
    SelectSeq(order, LAMBDA p : p # peer_id)

unregister_peer_keep_sender(st, peer_id) ==
    IF peer_id \in DOMAIN st.peers
    THEN LET conn == st.peers[peer_id] IN
         [st EXCEPT
            !.peers = MapRemove(st.peers, peer_id),
            !.servers = RemoveAndPrune(st.servers, conn.server_id, peer_id),
            !.signing_servers =
                IF conn.signing_pubkey # NoKey
                THEN RemoveAndPrune(st.signing_servers, conn.signing_pubkey, peer_id)
                ELSE st.signing_servers]
    ELSE st

unregister_peer(st, peer_id) ==
    LET st1 ==
          IF peer_id \in DOMAIN st.peers
          THEN LET conn == st.peers[peer_id] IN
               [st EXCEPT
                  !.peers = MapRemove(st.peers, peer_id),
                  !.servers = RemoveAndPrune(st.servers, conn.server_id, peer_id),
                  !.signing_servers =
                      IF conn.signing_pubkey # NoKey
                      THEN RemoveAndPrune(st.signing_servers, conn.signing_pubkey, peer_id)
                      ELSE st.signing_servers]
          ELSE st
    IN [st1 EXCEPT !.peer_senders = MapRemove(st1.peer_senders, peer_id)]

Frame(to, kind, about) == [to |-> to, kind |-> kind, about |-> about]

\* SignalingMessage::ServerHintUpdated as handed to the sender of peer `to`
ServerHintUpdated(to, signing_pubkey, hint) ==
    [to |-> to, kind |-> "ServerHintUpdated", about |-> signing_pubkey, hint |-> hint]

broadcast_server_hint_updated_all_senders(st, signing_pubkey, hint) ==
    IF signing_pubkey \notin DOMAIN st.signing_servers
    THEN EmptyBag
    ELSE SetToBag({ServerHintUpdated(p, signing_pubkey, hint) : p \in DOMAIN st.peer_senders})

\* the frames broadcast_server_hint_updated hands to senders
broadcast_server_hint_updated(st, signing_pubkey, hint) ==
    IF signing_pubkey \notin DOMAIN st.signing_servers
    THEN EmptyBag
    ELSE SetToBag({ServerHintUpdated(p, signing_pubkey, hint) :
                     p \in {q \in st.signing_servers[signing_pubkey] :
                              q \in DOMAIN st.peer_senders}})

\* ------------------------------------------------------------------------
\* VoiceState
\* ------------------------------------------------------------------------
VoicePeer(peer_id, user_id, conn_id) ==
    [peer_id |-> peer_id, user_id |-> user_id, conn_id |-> conn_id]

VoicePeerInfo(p) == [peer_id |-> p.peer_id, user_id |-> p.user_id]

register_voice_peer_list_no_retain(vc, peer_id, user_id, server_id, chat_id, conn_id) ==
    LET key == <<server_id, chat_id>>
        old == IF key \in DOMAIN vc THEN vc[key] ELSE <<>>
    IN Append(old, VoicePeer(peer_id, user_id, conn_id))

\* the chat list after register_voice_peer: retain other users, push the new entry
register_voice_peer_list(vc, peer_id, user_id, server_id, chat_id, conn_id) ==
    LET key == <<server_id, chat_id>>
        old == IF key \in DOMAIN vc THEN vc[key] ELSE <<>>
    IN Append(SelectSeq(old, LAMBDA p : p.user_id # user_id),
              VoicePeer(peer_id, user_id, conn_id))

register_voice_peer(vc, peer_id, user_id, server_id, chat_id, conn_id) ==
    MapInsert(vc, <<server_id, chat_id>>,
              register_voice_peer_list(vc, peer_id, user_id, server_id, chat_id, conn_id))

\* the Vec<VoicePeerInfo> register_voice_peer returns
register_voice_peer_others(vc, peer_id, user_id, server_id, chat_id, conn_id) ==
    LET others == SelectSeq(
            register_voice_peer_list(vc, peer_id, user_id, server_id, chat_id, conn_id),
            LAMBDA p : p.peer_id # peer_id)
    IN [i \in 1..Len(others) |-> VoicePeerInfo(others[i])]

\* peers.iter().position(..): 0 stands for None
Position(s, peer_id) ==
    IF \E i \in 1..Len(s) : s[i].peer_id = peer_id
    THEN CHOOSE i \in 1..Len(s) :
           /\ s[i].peer_id = peer_id
           /\ \A j \in 1..(i - 1) : s[j].peer_id # peer_id
    ELSE 0

RemoveAt_truncate(s, pos) == SubSeq(s, 1, pos - 1)

\* Vec::remove(pos)
RemoveAt(s, pos) == SubSeq(s, 1, pos - 1) \o SubSeq(s, pos + 1, Len(s))

NoUser == 0

\* Option<String> returned by unregister_voice_peer; NoUser stands for None
unregister_voice_peer_ret(vc, peer_id, server_id, chat_id) ==
    LET key == <<server_id, chat_id>> IN
    IF key \notin DOMAIN vc THEN NoUser
    ELSE IF Position(vc[key], peer_id) = 0 THEN NoUser
    ELSE vc[key][Position(vc[key], peer_id)].user_id

unregister_voice_peer_keep_empty(vc, peer_id, server_id, chat_id) ==
    LET key == <<server_id, chat_id>> IN
    IF key \notin DOMAIN vc THEN vc
    ELSE LET pos == Position(vc[key], peer_id) IN
         IF pos = 0 THEN vc ELSE [vc EXCEPT ![key] = RemoveAt(vc[key], pos)]

unregister_voice_peer(vc, peer_id, server_id, chat_id) ==
    LET key == <<server_id, chat_id>> IN
    IF key \notin DOMAIN vc THEN vc
    ELSE LET pos == Position(vc[key], peer_id) IN
         IF pos = 0 THEN vc
         ELSE LET rest == RemoveAt(vc[key], pos) IN
              IF rest = <<>> THEN MapRemove(vc, key) ELSE [vc EXCEPT ![key] = rest]

\* entries of one chat that handle_voice_disconnect collects in to_remove
to_remove(list, conn_id) == SelectSeq(list, LAMBDA p : p.conn_id = conn_id)

\* one chat after the retain(|p| p.peer_id != peer_id) of every to_remove entry
disconnect_chat(list, conn_id) ==
    LET gone == {to_remove(list, conn_id)[i].peer_id : i \in 1..Len(to_remove(list, conn_id))}
    IN SelectSeq(list, LAMBDA p : p.peer_id \notin gone)

handle_voice_disconnect_keep_all(vc, conn_id) == vc

handle_voice_disconnect(vc, conn_id) ==
    LET live == {key \in DOMAIN vc : disconnect_chat(vc[key], conn_id) # <<>>}
    IN [key \in live |-> disconnect_chat(vc[key], conn_id)]

RECURSIVE handle_voice_disconnect_removed(_, _, _)
\* the Vec of (server_id, chat_id, peer_id, user_id) handle_voice_disconnect
\* returns when voice_chats is iterated in the order `keys`
handle_voice_disconnect_removed(vc, conn_id, keys) ==
    IF keys = <<>> THEN <<>>
    ELSE LET key == Head(keys)
             gone == to_remove(vc[key], conn_id)
         IN [i \in 1..Len(gone) |-> <<key[1], key[2], gone[i].peer_id, gone[i].user_id>>]
            \o handle_voice_disconnect_removed(vc, conn_id, Tail(keys))

\* ------------------------------------------------------------------------
\* Socket-close cleanup and message handlers
\* ------------------------------------------------------------------------
\* frames to the members of `to` that have a sender
FramesTo(st, to, kind, about) ==
    SetToBag({Frame(q, kind, about) : q \in {r \in to : r \in DOMAIN st.peer_senders}})

\* peers in the same server as peer_id, other than peer_id
same_server_peers(st, peer_id) ==
    IF peer_id \in DOMAIN st.peers
    THEN IF st.peers[peer_id].server_id \in DOMAIN st.servers
         THEN st.servers[st.peers[peer_id].server_id] \ {peer_id}
         ELSE {}
    ELSE {}

RECURSIVE unregister_each(_, _)
\* unregister_peer called for every peer of `order`, one after the other
unregister_each(st, order) ==
    IF order = <<>> THEN st
    ELSE unregister_each(unregister_peer(st, Head(order)), Tail(order))

RECURSIVE peer_left_frames(_, _)
\* PeerLeft to the peers left in the server of each peer that is unregistered
peer_left_frames(st, order) ==
    IF order = <<>> THEN EmptyBag
    ELSE LET after == unregister_peer(st, Head(order)) IN
         FramesTo(after, same_server_peers(st, Head(order)), "PeerLeft", Head(order))
         (+) peer_left_frames(after, Tail(order))

\* take conn_peers[conn_id], then unregister_peer every member
socket_close_signaling(st, conn_id, order) ==
    unregister_each([st EXCEPT !.conn_peers = MapRemove(st.conn_peers, conn_id)], order)

chat_peer_ids(vc, key) ==
    IF key \in DOMAIN vc THEN {vc[key][i].peer_id : i \in 1..Len(vc[key])} ELSE {}

RECURSIVE voice_left_frames(_, _, _)
\* VoicePeerLeft to the remaining occupants of the chat of each removed tuple
voice_left_frames(st, vc, removed) ==
    IF removed = <<>> THEN EmptyBag
    ELSE LET t == Head(removed) IN
         FramesTo(st, chat_peer_ids(vc, <<t[1], t[2]>>), "VoicePeerLeft", t[3])
         (+) voice_left_frames(st, vc, Tail(removed))

\* ------------------------------------------------------------------------
\* Redis presence backend (beacon-server, handlers/redis.rs)
\* ------------------------------------------------------------------------
\* String: a signing pubkey is any string, the empty one included
EmptyString == <<>>
PubkeyStrings == {[i \in 1..n |-> "a"] : n \in 0..MaxKeyLen}

\* Option<T>
None == <<>>
Some(v) == <<v>>
OptPubkeys == {None} \cup {Some(k) : k \in PubkeyStrings}

\* Option<String>::unwrap_or_default
unwrap_or_default(o) == IF o = None THEN EmptyString ELSE o[1]

\* &[SigningPubkey]: the lists of distinct pubkeys
PubkeyLists == UNION {IterOrders(S) : S \in SUBSET PubkeyStrings}

redis_user_key(user_id) == <<"presence:user:", user_id>>

redis_server_key(signing_pubkey) == <<"presence:house:", signing_pubkey>>

\* the keyspace: hashes (their one field active_signing_pubkey), the seconds
\* left of the keys that have an expiry, and the sets
EmptyDb == [hashes |-> EmptyMap, ttl |-> EmptyMap, sets |-> EmptyMap]

HSET(db, key, value) == [db EXCEPT !.hashes = MapInsert(@, key, value)]

EXPIRE(db, key, secs) ==
    IF key \notin DOMAIN db.hashes THEN db
    ELSE IF secs <= 0
         THEN [db EXCEPT !.hashes = MapRemove(@, key), !.ttl = MapRemove(@, key)]
         ELSE [db EXCEPT !.ttl = MapInsert(@, key, secs)]

SADD(db, key, member) == [db EXCEPT !.sets = EntryInsert(@, key, member)]

DEL(db, key) == [db EXCEPT !.hashes = MapRemove(@, key), !.ttl = MapRemove(@, key)]

SREM(db, key, members) ==
    IF key \notin DOMAIN db.sets THEN db
    ELSE IF db.sets[key] \ members = {}
         THEN [db EXCEPT !.sets = MapRemove(@, key)]
         ELSE [db EXCEPT !.sets[key] = @ \ members]

SMEMBERS(db, key) == Members(db.sets, key)

HGET(db, key) == IF key \in DOMAIN db.hashes THEN Some(db.hashes[key]) ELSE None

\* one second passes: keys whose expiry is reached are deleted
Elapse(db) ==
    LET dead == {key \in DOMAIN db.ttl : db.ttl[key] <= 1} IN
    [hashes |-> [key \in (DOMAIN db.hashes) \ dead |-> db.hashes[key]],
     ttl |-> [key \in (DOMAIN db.ttl) \ dead |-> db.ttl[key] - 1],
     sets |-> db.sets]

\* a command of a pipeline, and its execution by the server
Cmd(name, key, arg) == [cmd |-> name, key |-> key, arg |-> arg]

Exec(db, c) ==
    CASE c.cmd = "HSET" -> HSET(db, c.key, c.arg)
      [] c.cmd = "EXPIRE" -> EXPIRE(db, c.key, c.arg)
      [] c.cmd = "SADD" -> SADD(db, c.key, c.arg)
      [] c.cmd = "DEL" -> DEL(db, c.key)
      [] c.cmd = "SREM" -> SREM(db, c.key, c.arg)

\* pipe.query_async with no other client in between
RECURSIVE query_async(_, _)
query_async(db, pipe) ==
    IF pipe = <<>> THEN db ELSE query_async(Exec(db, Head(pipe)), Tail(pipe))

\* the user record written with no expiry
record_pipe_no_expire(ttl_secs, user_id, active_signing_pubkey) ==
    <<Cmd("HSET", redis_user_key(user_id), unwrap_or_default(active_signing_pubkey))>>

\* pipe.hset(..).expire(..) of one user record
record_pipe(ttl_secs, user_id, active_signing_pubkey) ==
    <<Cmd("HSET", redis_user_key(user_id), unwrap_or_default(active_signing_pubkey)),
      Cmd("EXPIRE", redis_user_key(user_id), ttl_secs)>>

\* pipe.sadd(server_key, user_id) for spk in signing_pubkeys
sadd_pipe(user_id, signing_pubkeys) ==
    [i \in 1..Len(signing_pubkeys) |->
        Cmd("SADD", redis_server_key(signing_pubkeys[i]), user_id)]

redis_presence_hello_pipe(ttl_secs, user_id, signing_pubkeys, active_signing_pubkey) ==
    record_pipe(ttl_secs, user_id, active_signing_pubkey) \o sadd_pipe(user_id, signing_pubkeys)

redis_presence_hello(db, ttl_secs, user_id, signing_pubkeys, active_signing_pubkey) ==
    query_async(db, redis_presence_hello_pipe(ttl_secs, user_id, signing_pubkeys,
                                              active_signing_pubkey))

redis_presence_active_pipe(ttl_secs, user_id, active_signing_pubkey) ==
    record_pipe(ttl_secs, user_id, active_signing_pubkey)

redis_presence_active(db, ttl_secs, user_id, active_signing_pubkey) ==
    query_async(db, redis_presence_active_pipe(ttl_secs, user_id, active_signing_pubkey))

\* the reverse sets updated, the user record kept
redis_presence_disconnect_pipe_no_del(user_id, signing_pubkeys) ==
    [i \in 1..Len(signing_pubkeys) |->
        Cmd("SREM", redis_server_key(signing_pubkeys[i]), {user_id})]

redis_presence_disconnect_pipe(user_id, signing_pubkeys) ==
    <<Cmd("DEL", redis_user_key(user_id), {})>> \o
    [i \in 1..Len(signing_pubkeys) |->
        Cmd("SREM", redis_server_key(signing_pubkeys[i]), {user_id})]

redis_presence_disconnect(db, user_id, signing_pubkeys) ==
    query_async(db, redis_presence_disconnect_pipe(user_id, signing_pubkeys))

\* users: a list of (user_id, signing_pubkeys, active_signing_pubkey)
RECURSIVE redis_presence_refresh_pipe(_, _)
redis_presence_refresh_pipe(ttl_secs, users) ==
    IF users = <<>> THEN <<>>
    ELSE redis_presence_hello_pipe(ttl_secs, Head(users)[1], Head(users)[2], Head(users)[3])
         \o redis_presence_refresh_pipe(ttl_secs, Tail(users))

\* a refresh that writes its first user only
redis_presence_refresh_first_only(db, ttl_secs, users) ==
    IF users = <<>> THEN db
    ELSE query_async(db, redis_presence_hello_pipe(ttl_secs, Head(users)[1], Head(users)[2],
                                                   Head(users)[3]))

redis_presence_refresh(db, ttl_secs, users) ==
    IF users = <<>> THEN db
    ELSE query_async(db, redis_presence_refresh_pipe(ttl_secs, users))

PresenceUserStatus(user_id, active_signing_pubkey) ==
    [user_id |-> user_id, active_signing_pubkey |-> active_signing_pubkey]

\* the pipeline of HGETs over user_ids
active_values(db, user_ids) ==
    [i \in 1..Len(user_ids) |-> HGET(db, redis_user_key(user_ids[i]))]

\* user_ids.into_iter().zip(active_values.into_iter())
Zip(user_ids, values) ==
    [i \in 1..Len(user_ids) |-> [user_id |-> user_ids[i], active |-> values[i]]]

\* out with the stored value handed back as it is
snapshot_out_keep_empty(user_ids, values) ==
    LET found == SelectSeq(Zip(user_ids, values), LAMBDA z : z.active # None) IN
    [i \in 1..Len(found) |-> PresenceUserStatus(found[i].user_id, Some(found[i].active[1]))]

\* out: a status for each user whose field was read, empty read back as None
snapshot_out(user_ids, values) ==
    LET found == SelectSeq(Zip(user_ids, values), LAMBDA z : z.active # None) IN
    [i \in 1..Len(found) |->
        PresenceUserStatus(found[i].user_id,
                           IF found[i].active[1] = EmptyString
                           THEN None ELSE Some(found[i].active[1]))]

\* stale_users: the users whose field was not there
stale_users(user_ids, values) ==
    LET stale == SelectSeq(Zip(user_ids, values), LAMBDA z : z.active = None) IN
    [i \in 1..Len(stale) |-> stale[i].user_id]

\* a snapshot that ends without its SREM
snapshot_cleanup_skip(db, signing_pubkey, stale) == db

\* the SREM that ends a snapshot
snapshot_cleanup(db, signing_pubkey, stale) ==
    IF stale # <<>> THEN SREM(db, redis_server_key(signing_pubkey), ListSet(stale)) ELSE db

\* user_ids: the reply of SMEMBERS, in the order the server gives
redis_presence_snapshot_ret(db, signing_pubkey, user_ids) ==
    IF user_ids = <<>> THEN <<>>
    ELSE snapshot_out(user_ids, active_values(db, user_ids))

redis_presence_snapshot(db, signing_pubkey, user_ids) ==
    IF user_ids = <<>> THEN db
    ELSE snapshot_cleanup(db, signing_pubkey,
                          stale_users(user_ids, active_values(db, user_ids)))

\* ---- calls in flight: each client has its own connection, and the server
\* executes the commands of a connection in order, one at a time ----
Clients == 1..MaxClients

\* started: the calls made so far; open: client -> its call in flight
NoCalls == [started |-> 0, open |-> EmptyMap]

\* a hello/active/disconnect/refresh call: the commands of its pipeline not yet
\* executed, and whether one of them has been
Batch(op, pipe) == [op |-> op, pipe |-> pipe, begun |-> FALSE]

\* a snapshot call: SMEMBERS, then the HGETs, then the SREM
Snapshot(signing_pubkey) ==
    [op |-> "redis_presence_snapshot", key |-> signing_pubkey, stage |-> "SMEMBERS",
     user_ids |-> <<>>, values |-> <<>>]

Opened(cs, c, call) == [started |-> cs.started + 1, open |-> MapInsert(cs.open, c, call)]

Replied(cs, c) == [cs EXCEPT !.open = MapRemove(@, c)]

\* ---- what has been called for one user (kept for the properties) ----
\* user: the user observed; op: the last hello/active/refresh/disconnect call
\* for the user, with the keys it listed and the seconds since; hello: the last
\* hello call for the user, while neither a disconnect for the user nor
\* ttl_secs have followed it; revived: the user had no record when the active
\* calls that are the last calls for the user began
NoHistory(u) ==
    [user |-> u, op |-> "none", keys |-> {}, age |-> 0, hello |-> None, revived |-> FALSE]

Called(h, u, op, keys, active) ==
    IF u # h.user THEN h
    ELSE [user |-> u, op |-> op, keys |-> keys, age |-> 0,
          hello |-> IF op = "redis_presence_hello"
                    THEN Some([keys |-> keys, active |-> active, age |-> 0])
                    ELSE IF op = "redis_presence_disconnect" THEN None ELSE h.hello,
          revived |-> FALSE]

\* an active call for u, made on the keyspace db
CalledActive(h, db, u, active) ==
    IF u # h.user THEN h
    ELSE [Called(h, u, "redis_presence_active", {}, active) EXCEPT
             !.revived = \/ redis_user_key(u) \notin DOMAIN db.hashes
                         \/ (h.op = "redis_presence_active" /\ h.revived)]

Aged(h) ==
    [h EXCEPT !.age = IF h.op \in {"none", "redis_presence_disconnect"} THEN 0
                      ELSE IF @ > TtlSecs THEN @ ELSE @ + 1,
              !.hello = IF @ = None THEN None
                        ELSE IF @[1].age + 1 >= TtlSecs THEN None
                        ELSE Some([@[1] EXCEPT !.age = @ + 1])]

\* ------------------------------------------------------------------------
\* ConnectionTracker (signaling-server, security.rs)
\* ------------------------------------------------------------------------
Ips == 1..MaxIps
Limits == 0..MaxLimit

\* u32 subtraction that goes below zero
sub_below_zero(n, m) == n - m

\* u32::saturating_sub
saturating_sub(n, m) == IF n < m THEN 0 ELSE n - m

ConnectionTracker_new(max_total, max_per_ip) ==
    [total |-> 0, per_ip |-> EmptyMap, max_total |-> max_total, max_per_ip |-> max_per_ip]

\* per_ip.entry(ip).or_insert(0)
or_insert(m, k, v) == IF k \in DOMAIN m THEN m ELSE MapInsert(m, k, v)

\* try_register with a limit of 0 taken as a limit
try_register_ret_zero_limits(t, ip) ==
    IF t.total >= t.max_total THEN FALSE
    ELSE IF or_insert(t.per_ip, ip, 0)[ip] >= t.max_per_ip THEN FALSE
    ELSE TRUE

\* the result of try_register: TRUE for Ok(()), FALSE for Err(())
try_register_ret(t, ip) ==
    IF t.max_total > 0 /\ t.total >= t.max_total THEN FALSE
    ELSE IF t.max_per_ip > 0 /\ or_insert(t.per_ip, ip, 0)[ip] >= t.max_per_ip THEN FALSE
    ELSE TRUE

\* try_register that makes the per_ip entry before it tests the total
try_register_entry_first(t, ip) ==
    LET per == or_insert(t.per_ip, ip, 0) IN
    IF t.max_total > 0 /\ t.total >= t.max_total THEN [t EXCEPT !.per_ip = per]
    ELSE IF t.max_per_ip > 0 /\ per[ip] >= t.max_per_ip
         THEN [t EXCEPT !.per_ip = per]
         ELSE [t EXCEPT !.total = @ + 1, !.per_ip = [per EXCEPT ![ip] = @ + 1]]

\* try_register that counts in total only
try_register_total_only(t, ip) ==
    IF try_register_ret(t, ip) THEN [t EXCEPT !.total = @ + 1] ELSE t

try_register(t, ip) ==
    IF t.max_total > 0 /\ t.total >= t.max_total THEN t
    ELSE LET per == or_insert(t.per_ip, ip, 0) IN
         IF t.max_per_ip > 0 /\ per[ip] >= t.max_per_ip
         THEN [t EXCEPT !.per_ip = per]
         ELSE [t EXCEPT !.total = @ + 1, !.per_ip = [per EXCEPT ![ip] = @ + 1]]

unregister(t, ip) ==
    LET per == IF ip \in DOMAIN t.per_ip
               THEN IF saturating_sub(t.per_ip[ip], 1) = 0
                    THEN MapRemove(t.per_ip, ip)
                    ELSE [t.per_ip EXCEPT ![ip] = saturating_sub(@, 1)]
               ELSE t.per_ip
    IN [t EXCEPT !.per_ip = per, !.total = saturating_sub(@, 1)]

\* ------------------------------------------------------------------------
\* Audio capture (src-tauri): AUDIO_CAPTURE_STATE, the raw ring, the processed
\* and level channels, the processing thread and the calling thread
\* ------------------------------------------------------------------------
\* state:    AUDIO_CAPTURE_STATE is None or Some
\* locked:   the mutex of AUDIO_CAPTURE_STATE is held
\* pc:       where the calling thread is in start_capture / stop_capture
\* in_start: the running stop_capture was called by start_capture
\* thread:   where the processing thread is in process_audio_frames
\* stream:   a cpal stream of this capture is playing (it is leaked, never dropped)
\* abandoned: the Producer of the raw ring has been dropped
\* ring:     frames in the raw ring (RAW_RING_CAP, here MaxRing)
\* chan:     frames in the processed channel (its capacity, here MaxChan)
\* levels:   levels in the level channel, counted up to MaxLevels
\* tx:       live sender pairs (processed + level) held by this module
\* poisoned: the mutex of the DSP is poisoned
NoCapture ==
    [state |-> "None", locked |-> FALSE, pc |-> "idle", in_start |-> FALSE,
     thread |-> "none", stream |-> FALSE, abandoned |-> FALSE, ring |-> 0,
     chan |-> 0, levels |-> 0, tx |-> 0, poisoned |-> FALSE]

\* where stop_capture returns to
stop_return(cap) == IF cap.in_start THEN "build" ELSE "idle"

\* process_audio_frames: the thread leaves its loop and drops its senders
thread_break(cap) == [cap EXCEPT !.thread = "exited", !.tx = @ - 1]

\* process_audio_frames, raw_consumer.pop(): a frame, or Empty and then
\* break if the ring is abandoned, else yield and try again
pop_or_break(cap) ==
    IF cap.ring > 0 THEN [cap EXCEPT !.ring = @ - 1, !.thread = "dsp"]
    ELSE IF cap.abandoned THEN thread_break(cap)
    ELSE cap

\* process_audio_frames, after a frame was popped: lock the DSP (break when
\* poisoned), process, try_send the frame (dropped when the channel is full),
\* send the level
process_frame_and_send(cap) ==
    IF cap.poisoned THEN thread_break(cap)
    ELSE [cap EXCEPT !.chan = IF @ < MaxChan THEN @ + 1 ELSE @,
                     !.levels = IF @ < MaxLevels THEN @ + 1 ELSE @,
                     !.thread = "pop"]

\* ------------------------------------------------------------------------
\* State machine
\* ------------------------------------------------------------------------
Assign(st) ==
    /\ peers' = st.peers
    /\ servers' = st.servers
    /\ signing_servers' = st.signing_servers
    /\ peer_senders' = st.peer_senders
    /\ conn_peers' = st.conn_peers

InitObserving(u) ==
    /\ peers = SignalingState_new.peers
    /\ servers = SignalingState_new.servers
    /\ signing_servers = SignalingState_new.signing_servers
    /\ peer_senders = SignalingState_new.peer_senders
    /\ conn_peers = SignalingState_new.conn_peers
    /\ voice_chats = EmptyMap
    /\ closed = {}
    /\ received = 0
    /\ sent = EmptyBag
    /\ ret = [ok |-> TRUE]
    /\ last = [op |-> "new"]
    /\ redis = EmptyDb
    /\ history = NoHistory(u)
    /\ calls = NoCalls
    /\ tracker = ConnectionTracker_new(0, 0)
    /\ capture = NoCapture

Init == InitObserving(CHOOSE u \in UserIds : TRUE)

\* ---- direct calls of the SignalingState methods ----
RegisterPeer(p, s, k, c) ==
    /\ c \notin closed
    /\ LET st2 == register_peer(SignalingState, p, s, k, c) IN
       /\ Assign(st2)
       /\ \E order \in IterOrders(st2.servers[s]) :
            ret' = [list |-> register_peer_others(order, p)]
    /\ sent' = EmptyBag
    /\ last' = [op |-> "register_peer", peer |-> p, server |-> s, key |-> k, conn |-> c]
    /\ UNCHANGED <<voice_chats, closed, received>>
    /\ UNCHANGED presvars
    /\ UNCHANGED <<tracker, capture>>

\* the Hello handler's peer_senders.insert for a peer registered on this connection
BindSender(p, c) ==
    /\ c \notin closed
    /\ validate_peer_connection(SignalingState, p, c)
    /\ peer_senders' = MapInsert(peer_senders, p, c)
    /\ sent' = EmptyBag
    /\ ret' = [ok |-> TRUE]
    /\ last' = [op |-> "bind_sender", peer |-> p, conn |-> c]
    /\ UNCHANGED <<peers, servers, signing_servers, conn_peers, voice_chats, closed, received>>
    /\ UNCHANGED presvars
    /\ UNCHANGED <<tracker, capture>>

UnregisterPeer(p) ==
    /\ Assign(unregister_peer(SignalingState, p))
    /\ sent' = EmptyBag
    /\ ret' = [ok |-> TRUE]
    /\ last' = [op |-> "unregister_peer", peer |-> p]
    /\ UNCHANGED <<voice_chats, closed, received>>
    /\ UNCHANGED presvars
    /\ UNCHANGED <<tracker, capture>>

ValidatePeerConnection(p, c) ==
    /\ ret' = [ok |-> validate_peer_connection(SignalingState, p, c)]
    /\ sent' = EmptyBag
    /\ last' = [op |-> "validate_peer_connection", peer |-> p, conn |-> c]
    /\ UNCHANGED <<sigvars, voice_chats, closed, received>>
    /\ UNCHANGED presvars
    /\ UNCHANGED <<tracker, capture>>

BroadcastServerHintUpdated(k, h) ==
    /\ sent' = broadcast_server_hint_updated(SignalingState, k, h)
    /\ ret' = [ok |-> TRUE]
    /\ last' = [op |-> "broadcast_server_hint_updated", key |-> k, hint |-> h]
    /\ UNCHANGED <<sigvars, voice_chats, closed, received>>
    /\ UNCHANGED presvars
    /\ UNCHANGED <<tracker, capture>>

\* ---- the connection handler ----
SocketClose(c) ==
    /\ c \notin closed
    /\ closed' = closed \cup {c}
    /\ \E order \in IterOrders(IF c \in DOMAIN conn_peers THEN conn_peers[c] ELSE {}) :
       \E keys \in IterOrders(DOMAIN voice_chats) :
         LET taken == [SignalingState EXCEPT !.conn_peers = MapRemove(conn_peers, c)]
             st2 == socket_close_signaling(SignalingState, c, order)
             vc2 == handle_voice_disconnect(voice_chats, c)
             removed == handle_voice_disconnect_removed(voice_chats, c, keys)
         IN /\ Assign(st2)
            /\ voice_chats' = vc2
            /\ ret' = [taken |-> ListSet(order), list |-> removed]
            /\ sent' = peer_left_frames(taken, order) (+) voice_left_frames(st2, vc2, removed)
    /\ last' = [op |-> "socket_close", conn |-> c]
    /\ UNCHANGED received
    /\ UNCHANGED presvars
    /\ UNCHANGED <<tracker, capture>>

Receive(c) ==
    /\ c \notin closed
    /\ received < MaxMessages
    /\ received' = received + 1

Hello(c, p, s, k) ==
    /\ Receive(c)
    /\ LET st2 == register_peer(SignalingState, p, s, k, c)
           st3 == [st2 EXCEPT !.peer_senders = MapInsert(st2.peer_senders, p, c)]
       IN /\ Assign(st3)
          /\ \E order \in IterOrders(st2.servers[s]) :
               LET others == register_peer_others(order, p) IN
               /\ ret' = [list |-> others]
               /\ sent' = FramesTo(st3, {p}, "Welcome", p)
                          (+) FramesTo(st3, ListSet(others), "PeerJoined", p)
    /\ last' = [op |-> "Hello", peer |-> p, server |-> s, key |-> k, conn |-> c]
    /\ UNCHANGED <<voice_chats, closed>>
    /\ UNCHANGED presvars
    /\ UNCHANGED <<tracker, capture>>

\* Offer, Answer and Ice are forwarded alike
Offer(c, from, to) ==
    /\ Receive(c)
    /\ sent' = IF /\ validate_peer_connection(SignalingState, from, c)
                  /\ to \in DOMAIN peers
                  /\ peers[to].server_id = peers[from].server_id
               THEN FramesTo(SignalingState, {to}, "Offer", from)
               ELSE EmptyBag
    /\ ret' = [ok |-> TRUE]
    /\ last' = [op |-> "Offer", peer |-> from, to |-> to, conn |-> c]
    /\ UNCHANGED <<sigvars, voice_chats, closed>>
    /\ UNCHANGED presvars
    /\ UNCHANGED <<tracker, capture>>

Goodbye(c, p) ==
    /\ Receive(c)
    /\ IF validate_peer_connection(SignalingState, p, c)
       THEN LET st2 == unregister_peer(SignalingState, p) IN
            /\ Assign(st2)
            /\ sent' = FramesTo(st2, same_server_peers(SignalingState, p), "PeerLeft", p)
       ELSE /\ UNCHANGED sigvars
            /\ sent' = EmptyBag
    /\ ret' = [ok |-> TRUE]
    /\ last' = [op |-> "Goodbye", peer |-> p, conn |-> c]
    /\ UNCHANGED <<voice_chats, closed>>
    /\ UNCHANGED presvars
    /\ UNCHANGED <<tracker, capture>>

VoiceJoin(c, p, u, s, ch) ==
    /\ Receive(c)
    /\ IF validate_peer_connection(SignalingState, p, c)
       THEN LET others == register_voice_peer_others(voice_chats, p, u, s, ch, c) IN
            /\ voice_chats' = register_voice_peer(voice_chats, p, u, s, ch, c)
            /\ ret' = [list |-> others]
            /\ sent' = FramesTo(SignalingState, {p}, "VoicePeers", p)
                       (+) FramesTo(SignalingState, {others[i].peer_id : i \in 1..Len(others)},
                                    "VoicePeerJoined", p)
       ELSE /\ UNCHANGED voice_chats
            /\ ret' = [ok |-> FALSE]
            /\ sent' = EmptyBag
    /\ last' = [op |-> "VoiceJoin", peer |-> p, user |-> u, server |-> s, chat |-> ch, conn |-> c]
    /\ UNCHANGED <<sigvars, closed>>
    /\ UNCHANGED presvars
    /\ UNCHANGED <<tracker, capture>>

VoiceLeave(c, p, s, ch) ==
    /\ Receive(c)
    /\ IF validate_peer_connection(SignalingState, p, c)
       THEN LET vc2 == unregister_voice_peer(voice_chats, p, s, ch)
                user == unregister_voice_peer_ret(voice_chats, p, s, ch)
            IN /\ voice_chats' = vc2
               /\ ret' = [user |-> user]
               /\ sent' = IF user # NoUser
                          THEN FramesTo(SignalingState, chat_peer_ids(vc2, <<s, ch>>),
                                        "VoicePeerLeft", p)
                          ELSE EmptyBag
       ELSE /\ UNCHANGED voice_chats
            /\ ret' = [ok |-> FALSE]
            /\ sent' = EmptyBag
    /\ last' = [op |-> "VoiceLeave", peer |-> p, server |-> s, chat |-> ch, conn |-> c]
    /\ UNCHANGED <<sigvars, closed>>
    /\ UNCHANGED presvars
    /\ UNCHANGED <<tracker, capture>>

NextApi ==
    \/ \E p \in PeerIds, s \in ServerIds, k \in OptKeys, c \in ConnIds : RegisterPeer(p, s, k, c)
    \/ \E p \in PeerIds, c \in ConnIds : BindSender(p, c)
    \/ \E p \in PeerIds : UnregisterPeer(p)
    \/ \E p \in PeerIds, c \in ConnIds : ValidatePeerConnection(p, c)
    \/ \E k \in SigningPubkeys, h \in Hints : BroadcastServerHintUpdated(k, h)
    \/ \E c \in ConnIds : SocketClose(c)

\* direct calls of the SignalingState methods, and socket closes
SpecApi == Init /\ [][NextApi]_vars

Next ==
    \/ \E c \in ConnIds, p \in PeerIds, s \in ServerIds, k \in OptKeys : Hello(c, p, s, k)
    \/ \E c \in ConnIds, from \in PeerIds, to \in PeerIds : Offer(c, from, to)
    \/ \E c \in ConnIds, p \in PeerIds : Goodbye(c, p)
    \/ \E c \in ConnIds, p \in PeerIds, u \in UserIds, s \in ServerIds, ch \in ChatIds :
          VoiceJoin(c, p, u, s, ch)
    \/ \E c \in ConnIds, p \in PeerIds, s \in ServerIds, ch \in ChatIds : VoiceLeave(c, p, s, ch)
    \/ \E c \in ConnIds : SocketClose(c)

\* frames received on the connections, and socket closes
Spec == Init /\ [][Next]_vars

\* ------------------------------------------------------------------------
\* Properties of SignalingState
\* ------------------------------------------------------------------------
\* C1: every peer in peers is a member of conn_peers[its conn_id], of
\* servers[its server_id] and, when it has a signing key, of signing_servers[key].
C1_PeersAreIndexed ==
    \A p \in DOMAIN peers :
        /\ p \in Members(conn_peers, peers[p].conn_id)
        /\ p \in Members(servers, peers[p].server_id)
        /\ peers[p].signing_pubkey # NoKey
              => p \in Members(signing_servers, peers[p].signing_pubkey)

C1_Witness ==
    /\ last.op = "socket_close"
    /\ \E p \in DOMAIN peers : peers[p].signing_pubkey # NoKey
    /\ \E p \in PeerIds : p \notin DOMAIN peers /\ \E c \in DOMAIN conn_peers : p \in conn_peers[c]

\* C2: no set in servers, signing_servers or conn_peers contains a peer_id
\* absent from peers, and none of those sets is empty.
C2_NoStaleMemberNoEmptySet ==
    /\ \A s \in DOMAIN servers : servers[s] # {} /\ servers[s] \subseteq DOMAIN peers
    /\ \A k \in DOMAIN signing_servers :
          signing_servers[k] # {} /\ signing_servers[k] \subseteq DOMAIN peers
    /\ \A c \in DOMAIN conn_peers : conn_peers[c] # {} /\ conn_peers[c] \subseteq DOMAIN peers

\* C3: register_peer of a peer already bound to another connection removes the
\* previous binding: afterwards the peer is not in conn_peers[c1], is in
\* servers[s1] only if s1 = s2, and in signing_servers[k1] only if k1 = k2.
C3_ReplacementRemovesOldBinding ==
    [][(/\ last'.op = "register_peer"
        /\ last'.peer \in DOMAIN peers
        /\ peers[last'.peer].conn_id # last'.conn)
       => LET p == last'.peer
              old == peers[p]
          IN /\ p \notin Members(conn_peers', old.conn_id)
             /\ p \in Members(servers', old.server_id) => old.server_id = last'.server
             /\ (old.signing_pubkey # NoKey /\ p \in Members(signing_servers', old.signing_pubkey))
                   => old.signing_pubkey = last'.key]_vars

\* C6: validate_peer_connection(p, c) is true exactly when p is in peers with
\* conn_id c; it holds for at most one conn_id per peer, for none after
\* unregister_peer(p), and the call changes no state.
C6_ValidateIsExact ==
    [][/\ last'.op = "validate_peer_connection"
          => /\ ret'.ok = (/\ last'.peer \in DOMAIN peers
                           /\ peers[last'.peer].conn_id = last'.conn)
             /\ UNCHANGED <<sigvars, voice_chats, closed, received>>
       /\ \A p \in PeerIds :
             Cardinality({c \in ConnIds : validate_peer_connection(SignalingState', p, c)}) <= 1
       /\ last'.op = "unregister_peer"
          => \A c \in ConnIds : ~validate_peer_connection(SignalingState', last'.peer, c)]_vars

C6_Witness ==
    /\ last.op = "validate_peer_connection"
    /\ ret.ok
    /\ \E p \in DOMAIN peers : p # last.peer /\ peers[p].conn_id # last.conn

\* C8: register_peer returns exactly the members of servers[s] before the
\* call other than p, each once.
C8_ReturnsOthersOnce ==
    [][last'.op = "register_peer"
       => LET before == Members(servers, last'.server) \ {last'.peer}
          IN /\ ListSet(ret'.list) = before
             /\ Len(ret'.list) = Cardinality(before)]_vars

C8_Witness ==
    /\ last.op = "register_peer"
    /\ Len(ret.list) >= 1
    /\ peers[last.peer].conn_id \in DOMAIN conn_peers

\* C9: unregister_peer(p) removes p from peers, from the servers and
\* signing_servers sets of its binding and from peer_senders, drops a set it
\* empties, and leaves conn_peers and every other peer's entries alone; for an
\* unregistered p only peer_senders[p] goes.
C9_UnregisterFrame ==
    [][last'.op = "unregister_peer"
       => LET p == last'.peer
              reg == p \in DOMAIN peers
          IN /\ peers' = MapRemove(peers, p)
             /\ peer_senders' = MapRemove(peer_senders, p)
             /\ conn_peers' = conn_peers
             /\ \A s \in ServerIds :
                   /\ Members(servers', s) =
                         IF reg /\ s = peers[p].server_id
                         THEN Members(servers, s) \ {p} ELSE Members(servers, s)
                   /\ s \in DOMAIN servers' <=> Members(servers', s) # {}  \/
                         (s \in DOMAIN servers /\ ~(reg /\ s = peers[p].server_id))
             /\ \A k \in SigningPubkeys :
                   /\ Members(signing_servers', k) =
                         IF reg /\ k = peers[p].signing_pubkey
                         THEN Members(signing_servers, k) \ {p} ELSE Members(signing_servers, k)
                   /\ k \in DOMAIN signing_servers' <=> Members(signing_servers', k) # {} \/
                         (k \in DOMAIN signing_servers /\ ~(reg /\ k = peers[p].signing_pubkey))
             /\ ~reg => UNCHANGED <<peers, servers, signing_servers, conn_peers>>]_vars

C9_Witness ==
    /\ last.op = "unregister_peer"
    /\ last.peer \notin DOMAIN peers
    /\ \E c \in DOMAIN conn_peers : last.peer \in conn_peers[c]
    /\ DOMAIN peer_senders # {}
    /\ DOMAIN signing_servers = {}

\* C10: broadcast_server_hint_updated(k, h) hands one ServerHintUpdated frame
\* to each member of signing_servers[k] that has a sender and nothing to
\* anyone else, and changes no index.
C10_BroadcastScope ==
    [][last'.op = "broadcast_server_hint_updated"
       => LET k == last'.key
              h == last'.hint
              subs == {p \in Members(signing_servers, k) : p \in DOMAIN peer_senders}
          IN /\ \A p \in PeerIds :
                   CopiesIn(ServerHintUpdated(p, k, h), sent') =
                      IF p \in subs THEN 1 ELSE 0
             /\ \A f \in BagToSet(sent') :
                   f.kind = "ServerHintUpdated" /\ f.about = k /\ f.hint = h
             /\ UNCHANGED <<sigvars, voice_chats, closed, received>>]_vars

C10_Witness ==
    /\ last.op = "broadcast_server_hint_updated"
    /\ sent # EmptyBag
    /\ \E p \in DOMAIN peer_senders : p \notin Members(signing_servers, last.key)

\* ------------------------------------------------------------------------
\* Properties of the connection handler
\* ------------------------------------------------------------------------
NoVoicePeerOf(vc, c) ==
    \A key \in DOMAIN vc : \A i \in 1..Len(vc[key]) : vc[key][i].conn_id # c

C5_NoLeakAfterAllClosed ==
    closed = ConnIds
       => /\ DOMAIN peers = {}
          /\ DOMAIN servers = {}
          /\ DOMAIN signing_servers = {}
          /\ DOMAIN peer_senders = {}
          /\ DOMAIN conn_peers = {}
          /\ DOMAIN voice_chats = {}

\* C7: a message whose source peer is not registered on the receiving
\* connection changes neither SignalingState nor VoiceState and sends no frame.
C7_IdentityMismatchIsDropped ==
    [][(/\ last'.op \in {"Offer", "Goodbye", "VoiceJoin", "VoiceLeave"}
        /\ ~(/\ last'.peer \in DOMAIN peers
             /\ peers[last'.peer].conn_id = last'.conn))
       => /\ UNCHANGED <<sigvars, voice_chats>>
          /\ sent' = EmptyBag]_vars

C7_Witness ==
    /\ last.op = "Offer"
    /\ last.peer \in DOMAIN peers
    /\ peers[last.peer].conn_id # last.conn
    /\ last.to \in DOMAIN peer_senders
    /\ last.to # last.peer
    /\ peers[last.to].server_id = peers[last.peer].server_id
    /\ peers[last.to].conn_id = last.conn
    /\ sent = EmptyBag

\* ------------------------------------------------------------------------
\* Direct calls of the VoiceState methods
\* ------------------------------------------------------------------------
ChatList(vc, key) == IF key \in DOMAIN vc THEN vc[key] ELSE <<>>

RegisterVoicePeer(p, u, s, ch, c) ==
    /\ voice_chats' = register_voice_peer(voice_chats, p, u, s, ch, c)
    /\ ret' = [list |-> register_voice_peer_others(voice_chats, p, u, s, ch, c)]
    /\ last' = [op |-> "register_voice_peer", peer |-> p, user |-> u, server |-> s,
                chat |-> ch, conn |-> c,
                rejoin |-> \E i \in 1..Len(ChatList(voice_chats, <<s, ch>>)) :
                              ChatList(voice_chats, <<s, ch>>)[i].user_id = u]
    /\ sent' = EmptyBag
    /\ UNCHANGED <<sigvars, closed, received>>
    /\ UNCHANGED presvars
    /\ UNCHANGED <<tracker, capture>>

UnregisterVoicePeer(p, s, ch) ==
    /\ voice_chats' = unregister_voice_peer(voice_chats, p, s, ch)
    /\ ret' = [user |-> unregister_voice_peer_ret(voice_chats, p, s, ch)]
    /\ last' = [op |-> "unregister_voice_peer", peer |-> p, server |-> s, chat |-> ch]
    /\ sent' = EmptyBag
    /\ UNCHANGED <<sigvars, closed, received>>
    /\ UNCHANGED presvars
    /\ UNCHANGED <<tracker, capture>>

HandleVoiceDisconnect(c) ==
    /\ voice_chats' = handle_voice_disconnect(voice_chats, c)
    /\ \E keys \in IterOrders(DOMAIN voice_chats) :
         ret' = [list |-> handle_voice_disconnect_removed(voice_chats, c, keys)]
    /\ last' = [op |-> "handle_voice_disconnect", conn |-> c]
    /\ sent' = EmptyBag
    /\ UNCHANGED <<sigvars, closed, received>>
    /\ UNCHANGED presvars
    /\ UNCHANGED <<tracker, capture>>

NextVoice ==
    \/ \E p \in PeerIds, u \in UserIds, s \in ServerIds, ch \in ChatIds, c \in ConnIds :
          RegisterVoicePeer(p, u, s, ch, c)
    \/ \E p \in PeerIds, s \in ServerIds, ch \in ChatIds : UnregisterVoicePeer(p, s, ch)
    \/ \E c \in ConnIds : HandleVoiceDisconnect(c)

\* direct calls of the VoiceState methods
SpecVoice == Init /\ [][NextVoice]_vars

\* ------------------------------------------------------------------------
\* Properties of VoiceState
\* ------------------------------------------------------------------------
\* positions of the entries of all chats
Entries(vc) == UNION {{<<key, i>> : i \in 1..Len(vc[key])} : key \in DOMAIN vc}

\* C11: each user_id appears at most once per chat, and register_voice_peer
\* for a user leaves exactly one entry for that user, with the new peer_id
\* and conn_id.
C11_OneEntryPerUser ==
    [][/\ \A key \in DOMAIN voice_chats' :
             \A i, j \in 1..Len(voice_chats'[key]) :
                 i # j => voice_chats'[key][i].user_id # voice_chats'[key][j].user_id
       /\ last'.op = "register_voice_peer"
          => LET l == ChatList(voice_chats', <<last'.server, last'.chat>>) IN
             /\ Cardinality({i \in 1..Len(l) : l[i].user_id = last'.user}) = 1
             /\ \E i \in 1..Len(l) : l[i] = VoicePeer(last'.peer, last'.user, last'.conn)]_vars

C11_Witness ==
    /\ last.op = "register_voice_peer"
    /\ last.rejoin
    /\ Len(ChatList(voice_chats, <<last.server, last.chat>>)) >= 2

\* C12: register_voice_peer returns the chat's entries after the call minus
\* the newly inserted one: never user u, and every other user's entry.
C12_ReturnsEveryOtherUser ==
    [][last'.op = "register_voice_peer"
       => LET l == ChatList(voice_chats', <<last'.server, last'.chat>>) IN
          /\ ListSet(ret'.list) =
                {VoicePeerInfo(l[i]) : i \in {j \in 1..Len(l) : l[j].user_id # last'.user}}
          /\ Len(ret'.list) = Len(l) - 1]_vars

\* C13: handle_voice_disconnect(c) leaves no entry with conn_id c, returns one
\* tuple per entry it removed, and a second call returns the empty list.
C13_DisconnectReturnsWhatItRemoved ==
    [][last'.op = "handle_voice_disconnect"
       => /\ NoVoicePeerOf(voice_chats', last'.conn)
          /\ Len(ret'.list) = Cardinality(Entries(voice_chats))
                                - Cardinality(Entries(voice_chats'))
          /\ \A keys \in IterOrders(DOMAIN voice_chats') :
                handle_voice_disconnect_removed(voice_chats', last'.conn, keys) = <<>>]_vars

\* C14: unregister_voice_peer returns the user of an entry with peer_id p and
\* removes that one entry, keeping the order of the rest; when there is no
\* such entry it returns None and leaves voice_chats as it was.
C14_UnregisterVoiceReturn ==
    [][last'.op = "unregister_voice_peer"
       => LET key == <<last'.server, last'.chat>>
              l == ChatList(voice_chats, key)
          IN IF \E i \in 1..Len(l) : l[i].peer_id = last'.peer
             THEN \E i \in 1..Len(l) :
                    /\ l[i].peer_id = last'.peer
                    /\ ret'.user = l[i].user_id
                    /\ ChatList(voice_chats', key) =
                          [j \in 1..(Len(l) - 1) |-> IF j < i THEN l[j] ELSE l[j + 1]]
                    /\ \A k2 \in (DOMAIN voice_chats \cup DOMAIN voice_chats') \ {key} :
                          ChatList(voice_chats', k2) = ChatList(voice_chats, k2)
             ELSE /\ ret'.user = NoUser
                  /\ voice_chats' = voice_chats]_vars

C14_Witness ==
    /\ last.op = "unregister_voice_peer"
    /\ ret.user # NoUser
    /\ ChatList(voice_chats, <<last.server, last.chat>>) # <<>>
    /\ Cardinality(DOMAIN voice_chats) >= 2

\* C15: no key of voice_chats maps to an empty list.
C15_NoEmptyChat ==
    \A key \in DOMAIN voice_chats : voice_chats[key] # <<>>

C15_Witness ==
    /\ last.op = "unregister_voice_peer"
    /\ ret.user # NoUser
    /\ <<last.server, last.chat>> \notin DOMAIN voice_chats
    /\ DOMAIN voice_chats # {}

\* ------------------------------------------------------------------------
\* Calls of the Redis presence functions, one at a time
\* ------------------------------------------------------------------------
MaxRefresh == 1

\* the users argument of refresh: distinct users, each with keys and active key
RefreshLists ==
    UNION {{[i \in 1..Len(us) |-> <<us[i], f[us[i]][1], f[us[i]][2]>>] :
              f \in [ListSet(us) -> PubkeyLists \X OptPubkeys]} :
           us \in UNION {IterOrders(S) : S \in {T \in SUBSET UserIds : Cardinality(T) <= MaxRefresh}}}

RECURSIVE CalledEach(_, _)
CalledEach(hs, users) ==
    IF users = <<>> THEN hs
    ELSE CalledEach(Called(hs, Head(users)[1], "redis_presence_refresh",
                           ListSet(Head(users)[2]), Head(users)[3]),
                    Tail(users))

PresenceHello(u, spks, active) ==
    /\ redis' = redis_presence_hello(redis, TtlSecs, u, spks, active)
    /\ history' = Called(history, u, "redis_presence_hello", ListSet(spks), active)
    /\ ret' = [ok |-> TRUE]
    /\ last' = [op |-> "redis_presence_hello", user |-> u]
    /\ sent' = EmptyBag
    /\ UNCHANGED <<sigvars, voice_chats, closed, received, calls>>
    /\ UNCHANGED <<tracker, capture>>

PresenceActive(u, active) ==
    /\ redis' = redis_presence_active(redis, TtlSecs, u, active)
    /\ history' = CalledActive(history, redis, u, active)
    /\ ret' = [ok |-> TRUE]
    /\ last' = [op |-> "redis_presence_active", user |-> u]
    /\ sent' = EmptyBag
    /\ UNCHANGED <<sigvars, voice_chats, closed, received, calls>>
    /\ UNCHANGED <<tracker, capture>>

PresenceDisconnect(u, spks) ==
    /\ redis' = redis_presence_disconnect(redis, u, spks)
    /\ history' = Called(history, u, "redis_presence_disconnect", ListSet(spks), None)
    /\ ret' = [ok |-> TRUE]
    /\ last' = [op |-> "redis_presence_disconnect", user |-> u]
    /\ sent' = EmptyBag
    /\ UNCHANGED <<sigvars, voice_chats, closed, received, calls>>
    /\ UNCHANGED <<tracker, capture>>

PresenceSnapshot(k) ==
    /\ \E user_ids \in IterOrders(SMEMBERS(redis, redis_server_key(k))) :
         /\ redis' = redis_presence_snapshot(redis, k, user_ids)
         /\ ret' = [list |-> redis_presence_snapshot_ret(redis, k, user_ids)]
         /\ last' = [op |-> "redis_presence_snapshot", key |-> k, user_ids |-> user_ids]
    /\ sent' = EmptyBag
    /\ UNCHANGED <<sigvars, voice_chats, closed, received, history, calls>>
    /\ UNCHANGED <<tracker, capture>>

PresenceRefresh(users) ==
    /\ redis' = redis_presence_refresh(redis, TtlSecs, users)
    /\ history' = CalledEach(history, users)
    /\ ret' = [ok |-> TRUE]
    /\ last' = [op |-> "redis_presence_refresh", users |-> [i \in 1..Len(users) |-> users[i][1]]]
    /\ sent' = EmptyBag
    /\ UNCHANGED <<sigvars, voice_chats, closed, received, calls>>
    /\ UNCHANGED <<tracker, capture>>

\* one second passes
Tick ==
    /\ redis' = Elapse(redis)
    /\ history' = Aged(history)
    /\ ret' = [ok |-> TRUE]
    /\ last' = [op |-> "tick"]
    /\ sent' = EmptyBag
    /\ UNCHANGED <<sigvars, voice_chats, closed, received, calls>>
    /\ UNCHANGED <<tracker, capture>>

NextPresence ==
    \/ \E u \in UserIds, spks \in PubkeyLists, active \in OptPubkeys : PresenceHello(u, spks, active)
    \/ \E u \in UserIds, active \in OptPubkeys : PresenceActive(u, active)
    \/ \E u \in UserIds, spks \in PubkeyLists : PresenceDisconnect(u, spks)
    \/ \E k \in PubkeyStrings : PresenceSnapshot(k)
    \/ \E users \in RefreshLists : PresenceRefresh(users)
    \/ Tick

\* calls of the presence functions, each complete before the next
InitPresence == \E u \in UserIds : InitObserving(u)

SpecPresence == InitPresence /\ [][NextPresence]_vars

\* ------------------------------------------------------------------------
\* Concurrent calls of the Redis presence functions: the server executes one
\* command at a time, of whichever connection has one pending
\* ------------------------------------------------------------------------
Begin(c, call) ==
    /\ c \notin DOMAIN calls.open
    /\ calls.started < MaxCalls
    /\ calls' = Opened(calls, c, call)
    /\ ret' = [ok |-> TRUE]
    /\ sent' = EmptyBag
    /\ UNCHANGED <<sigvars, voice_chats, closed, received, redis, history>>
    /\ UNCHANGED <<tracker, capture>>

BeginHello(c, u, spks, active) ==
    /\ Begin(c, Batch("redis_presence_hello", redis_presence_hello_pipe(TtlSecs, u, spks, active)))
    /\ last' = [op |-> "redis_presence_hello", client |-> c]

BeginActive(c, u, active) ==
    /\ Begin(c, Batch("redis_presence_active", redis_presence_active_pipe(TtlSecs, u, active)))
    /\ last' = [op |-> "redis_presence_active", client |-> c]

BeginDisconnect(c, u, spks) ==
    /\ Begin(c, Batch("redis_presence_disconnect", redis_presence_disconnect_pipe(u, spks)))
    /\ last' = [op |-> "redis_presence_disconnect", client |-> c]

\* users.is_empty() returns before any command
BeginRefresh(c, users) ==
    /\ users # <<>>
    /\ Begin(c, Batch("redis_presence_refresh", redis_presence_refresh_pipe(TtlSecs, users)))
    /\ last' = [op |-> "redis_presence_refresh", client |-> c]

BeginSnapshot(c, k) ==
    /\ Begin(c, Snapshot(k))
    /\ last' = [op |-> "redis_presence_snapshot", client |-> c]

\* the next command of a hello/active/disconnect/refresh pipeline is executed
ServeCommand(c) ==
    /\ c \in DOMAIN calls.open
    /\ calls.open[c].op # "redis_presence_snapshot"
    /\ LET call == calls.open[c] IN
         /\ redis' = Exec(redis, Head(call.pipe))
         /\ calls' = IF Tail(call.pipe) = <<>> THEN Replied(calls, c)
                     ELSE [calls EXCEPT !.open[c] = [call EXCEPT !.pipe = Tail(@), !.begun = TRUE]]
         /\ last' = [op |-> Head(call.pipe).cmd, client |-> c, of |-> call.op]
    /\ ret' = [ok |-> TRUE]
    /\ sent' = EmptyBag
    /\ UNCHANGED <<sigvars, voice_chats, closed, received, history>>
    /\ UNCHANGED <<tracker, capture>>

\* SMEMBERS of a snapshot; the call returns when the reply is empty
ServeMembers(c) ==
    /\ c \in DOMAIN calls.open
    /\ calls.open[c].op = "redis_presence_snapshot"
    /\ calls.open[c].stage = "SMEMBERS"
    /\ \E user_ids \in IterOrders(SMEMBERS(redis, redis_server_key(calls.open[c].key))) :
         IF user_ids = <<>>
         THEN /\ calls' = Replied(calls, c)
              /\ ret' = [list |-> <<>>]
         ELSE /\ calls' = [calls EXCEPT !.open[c] = [@ EXCEPT !.stage = "HGET", !.user_ids = user_ids]]
              /\ ret' = [ok |-> TRUE]
    /\ last' = [op |-> "SMEMBERS", client |-> c, of |-> "redis_presence_snapshot"]
    /\ sent' = EmptyBag
    /\ UNCHANGED <<sigvars, voice_chats, closed, received, redis, history>>
    /\ UNCHANGED <<tracker, capture>>

\* the next HGET of a snapshot; after the last one the call returns out when
\* stale_users is empty
ServeField(c) ==
    /\ c \in DOMAIN calls.open
    /\ calls.open[c].op = "redis_presence_snapshot"
    /\ calls.open[c].stage = "HGET"
    /\ LET call == calls.open[c]
           values == Append(call.values,
                            HGET(redis, redis_user_key(call.user_ids[Len(call.values) + 1])))
       IN IF Len(values) < Len(call.user_ids)
          THEN /\ calls' = [calls EXCEPT !.open[c] = [call EXCEPT !.values = values]]
               /\ ret' = [ok |-> TRUE]
          ELSE IF stale_users(call.user_ids, values) = <<>>
          THEN /\ calls' = Replied(calls, c)
               /\ ret' = [list |-> snapshot_out(call.user_ids, values)]
          ELSE /\ calls' = [calls EXCEPT !.open[c] = [call EXCEPT !.values = values, !.stage = "SREM"]]
               /\ ret' = [ok |-> TRUE]
    /\ last' = [op |-> "HGET", client |-> c, of |-> "redis_presence_snapshot"]
    /\ sent' = EmptyBag
    /\ UNCHANGED <<sigvars, voice_chats, closed, received, redis, history>>
    /\ UNCHANGED <<tracker, capture>>

\* the SREM of stale_users; the call returns out
ServeCleanup(c) ==
    /\ c \in DOMAIN calls.open
    /\ calls.open[c].op = "redis_presence_snapshot"
    /\ calls.open[c].stage = "SREM"
    /\ LET call == calls.open[c] IN
         /\ redis' = snapshot_cleanup(redis, call.key, stale_users(call.user_ids, call.values))
         /\ ret' = [list |-> snapshot_out(call.user_ids, call.values)]
    /\ calls' = Replied(calls, c)
    /\ last' = [op |-> "SREM", client |-> c, of |-> "redis_presence_snapshot"]
    /\ sent' = EmptyBag
    /\ UNCHANGED <<sigvars, voice_chats, closed, received, history>>
    /\ UNCHANGED <<tracker, capture>>

NextRedis ==
    \/ \E c \in Clients, u \in UserIds, spks \in PubkeyLists, active \in OptPubkeys :
          BeginHello(c, u, spks, active)
    \/ \E c \in Clients, u \in UserIds, active \in OptPubkeys : BeginActive(c, u, active)
    \/ \E c \in Clients, u \in UserIds, spks \in PubkeyLists : BeginDisconnect(c, u, spks)
    \/ \E c \in Clients, users \in RefreshLists : BeginRefresh(c, users)
    \/ \E c \in Clients, k \in PubkeyStrings : BeginSnapshot(c, k)
    \/ \E c \in Clients : ServeCommand(c)
    \/ \E c \in Clients : ServeMembers(c)
    \/ \E c \in Clients : ServeField(c)
    \/ \E c \in Clients : ServeCleanup(c)

\* calls of the presence functions by clients that do not wait for each other
SpecRedis == Init /\ [][NextRedis]_vars

\* ------------------------------------------------------------------------
\* Snapshots racing hello and refresh calls that list every key, while time
\* passes
\* ------------------------------------------------------------------------
\* the lists that hold every signing pubkey
FullPubkeyLists == {spks \in PubkeyLists : ListSet(spks) = PubkeyStrings}

FullRefreshLists ==
    {users \in RefreshLists : \A i \in 1..Len(users) : users[i][2] \in FullPubkeyLists}

NextRepair ==
    \/ \E c \in Clients, u \in UserIds, spks \in FullPubkeyLists, active \in OptPubkeys :
          BeginHello(c, u, spks, active)
    \/ \E c \in Clients, users \in FullRefreshLists : BeginRefresh(c, users)
    \/ \E c \in Clients, k \in PubkeyStrings : BeginSnapshot(c, k)
    \/ \E c \in Clients : ServeCommand(c)
    \/ \E c \in Clients : ServeMembers(c)
    \/ \E c \in Clients : ServeField(c)
    \/ \E c \in Clients : ServeCleanup(c)
    \/ Tick

SpecRepair == Init /\ [][NextRepair]_vars

\* ------------------------------------------------------------------------
\* refresh over lists of several users
\* ------------------------------------------------------------------------
MaxBatch == 2

\* the users argument of refresh: lists of (user_id, signing_pubkeys, active)
\* of distinct users
BatchLists ==
    {l \in UNION {[1..n -> UserIds \X PubkeyLists \X OptPubkeys] : n \in 0..MaxBatch} :
        \A i, j \in 1..Len(l) : i # j => l[i][1] # l[j][1]}

RefreshBatch(users) ==
    /\ redis' = redis_presence_refresh(redis, TtlSecs, users)
    /\ history' = CalledEach(history, users)
    /\ ret' = [ok |-> TRUE]
    /\ last' = [op |-> "redis_presence_refresh", len |-> Len(users)]
    /\ sent' = EmptyBag
    /\ UNCHANGED <<sigvars, voice_chats, closed, received, calls>>
    /\ UNCHANGED <<tracker, capture>>

NextBatch ==
    \/ \E users \in BatchLists : RefreshBatch(users)
    \/ \E u \in UserIds, spks \in PubkeyLists : PresenceDisconnect(u, spks)
    \/ Tick

SpecBatch == Init /\ [][NextBatch]_vars

\* ------------------------------------------------------------------------
\* Calls of the ConnectionTracker methods
\* ------------------------------------------------------------------------
\* the place of a try_register in the attempts made from one ip, one after
\* the other, since the tracker was constructed (0: not such an attempt)
Nth(l, ip) ==
    IF l.op = "ConnectionTracker_new" THEN 1
    ELSE IF l.op = "try_register" /\ l.ip = ip /\ l.nth > 0
         THEN (IF l.nth > MaxLimit THEN l.nth ELSE l.nth + 1)
         ELSE 0

TrackerNew(max_total, max_per_ip) ==
    /\ tracker' = ConnectionTracker_new(max_total, max_per_ip)
    /\ ret' = [ok |-> TRUE]
    /\ last' = [op |-> "ConnectionTracker_new"]
    /\ sent' = EmptyBag
    /\ UNCHANGED <<sigvars, voice_chats, closed, received, presvars, capture>>

\* the counts are kept up to MaxTracked, far from the end of u32
TryRegister(ip) ==
    /\ tracker.total < MaxTracked
    /\ ip \in DOMAIN tracker.per_ip => tracker.per_ip[ip] < MaxTracked
    /\ tracker' = try_register(tracker, ip)
    /\ ret' = [ok |-> try_register_ret(tracker, ip)]
    /\ last' = [op |-> "try_register", ip |-> ip, nth |-> Nth(last, ip)]
    /\ sent' = EmptyBag
    /\ UNCHANGED <<sigvars, voice_chats, closed, received, presvars, capture>>

Unregister(ip) ==
    /\ tracker' = unregister(tracker, ip)
    /\ ret' = [ok |-> TRUE]
    /\ last' = [op |-> "unregister", ip |-> ip, total |-> tracker.total,
                 had |-> ip \in DOMAIN tracker.per_ip]
    /\ sent' = EmptyBag
    /\ UNCHANGED <<sigvars, voice_chats, closed, received, presvars, capture>>

NextTracker ==
    \/ \E max_total \in Limits, max_per_ip \in Limits : TrackerNew(max_total, max_per_ip)
    \/ \E ip \in Ips : TryRegister(ip)
    \/ \E ip \in Ips : Unregister(ip)

SpecTracker == Init /\ [][NextTracker]_vars

\* ------------------------------------------------------------------------
\* Calls and threads of the audio capture
\* ------------------------------------------------------------------------
noncapture == <<sigvars, voice_chats, closed, received, sent, ret, last, presvars, tracker>>

\* start_capture is called with a new pair of senders; it calls stop_capture first
StartCapture ==
    /\ capture.pc = "idle"
    /\ capture' = [capture EXCEPT !.pc = "stop_lock", !.in_start = TRUE, !.tx = @ + 1]
    /\ UNCHANGED noncapture

\* stop_capture is called
StopCapture ==
    /\ capture.pc = "idle"
    /\ capture' = [capture EXCEPT !.pc = "stop_lock", !.in_start = FALSE]
    /\ UNCHANGED noncapture

\* stop_capture: lock the state, take it, drop the stored senders; with no
\* state stored, return
StopTake ==
    /\ capture.pc = "stop_lock"
    /\ ~capture.locked
    /\ capture' = IF capture.state = "Some"
                  THEN [capture EXCEPT !.state = "None", !.tx = @ - 1,
                                       !.locked = TRUE, !.pc = "stop_join"]
                  ELSE [capture EXCEPT !.pc = stop_return(capture)]
    /\ UNCHANGED noncapture

\* stop_capture: thread.join() returns once the processing thread has ended;
\* the guard is dropped and stop_capture returns
StopJoin ==
    /\ capture.pc = "stop_join"
    /\ capture.thread = "exited"
    /\ capture' = [capture EXCEPT !.thread = "none", !.locked = FALSE,
                                  !.pc = stop_return(capture)]
    /\ UNCHANGED noncapture

\* start_capture: find the device, make the ring, build and play the stream;
\* an error returns Err (the senders passed in are dropped; a stream that was
\* built but does not play is dropped with its Producer)
BuildStream(r) ==
    /\ capture.pc = "build"
    /\ capture' = IF r = "ok"
                  THEN [capture EXCEPT !.stream = TRUE, !.abandoned = FALSE,
                                       !.ring = 0, !.pc = "spawn"]
                  ELSE [capture EXCEPT !.pc = "idle", !.tx = @ - 1,
                                       !.abandoned = @ \/ r = "play_err"]
    /\ UNCHANGED noncapture

\* start_capture: clone the senders and spawn the processing thread
SpawnThread ==
    /\ capture.pc = "spawn"
    /\ capture' = [capture EXCEPT !.thread = "pop", !.tx = @ + 1, !.pc = "store"]
    /\ UNCHANGED noncapture

\* start_capture: lock the state, leak the stream, store the state, return Ok
StoreState ==
    /\ capture.pc = "store"
    /\ ~capture.locked
    /\ capture' = [capture EXCEPT !.state = "Some", !.pc = "idle"]
    /\ UNCHANGED noncapture

\* process_audio_frames: one raw_consumer.pop()
ThreadPop ==
    /\ capture.thread = "pop"
    /\ capture' = pop_or_break(capture)
    /\ UNCHANGED noncapture

\* process_audio_frames: the rest of the loop body
ThreadProcess ==
    /\ capture.thread = "dsp"
    /\ capture' = process_frame_and_send(capture)
    /\ UNCHANGED noncapture

\* the input callback of the playing stream pushes a frame (dropped when the
\* ring is full)
AudioCallback ==
    /\ capture.stream
    /\ ~capture.abandoned
    /\ capture' = [capture EXCEPT !.ring = IF @ < MaxRing THEN @ + 1 ELSE @]
    /\ UNCHANGED noncapture

\* the receiver of the processed frames takes one
ReceiveFrame ==
    /\ capture.chan > 0
    /\ capture' = [capture EXCEPT !.chan = @ - 1]
    /\ UNCHANGED noncapture

\* the receiver of the levels takes one
ReceiveLevel ==
    /\ capture.levels > 0
    /\ capture' = [capture EXCEPT !.levels = @ - 1]
    /\ UNCHANGED noncapture

\* a holder of the DSP mutex panics: the mutex is poisoned
DspPoisoned ==
    /\ ~capture.poisoned
    /\ capture' = [capture EXCEPT !.poisoned = TRUE]
    /\ UNCHANGED noncapture

NextCapture ==
    \/ StartCapture
    \/ StopCapture
    \/ StopTake
    \/ StopJoin
    \/ \E r \in {"ok", "build_err", "play_err"} : BuildStream(r)
    \/ SpawnThread
    \/ StoreState
    \/ ThreadPop
    \/ ThreadProcess
    \/ AudioCallback
    \/ ReceiveFrame
    \/ ReceiveLevel
    \/ DspPoisoned

\* every thread that can take a step takes one in the end: the calling thread,
\* the processing thread, the audio callback and the receivers
FairCapture ==
    /\ WF_vars(StopTake)
    /\ WF_vars(StopJoin)
    /\ WF_vars(ThreadPop)
    /\ WF_vars(ThreadProcess)
    /\ WF_vars(AudioCallback)
    /\ WF_vars(ReceiveFrame)
    /\ WF_vars(ReceiveLevel)

SpecCapture == Init /\ [][NextCapture]_vars /\ FairCapture

\* ------------------------------------------------------------------------
\* Properties of the Redis presence functions
\* ------------------------------------------------------------------------
\* the statuses of user u in the result of a snapshot
StatusesOf(list, u) == {i \in 1..Len(list) : list[i].user_id = u}

\* C16 (as stated): after hello(u, keys, active) with no disconnect for u since,
\* a snapshot(k) with k in keys taken before the TTL has elapsed contains exactly
\* one status for u, and its active_signing_pubkey is the active key given to
\* hello (absent when that was absent).
C16_RoundTripUnlessDisconnect ==
    [][(last'.op = "redis_presence_snapshot" /\ history.hello # None
          /\ last'.key \in history.hello[1].keys)
       => /\ Cardinality(StatusesOf(ret'.list, history.user)) = 1
          /\ \A i \in StatusesOf(ret'.list, history.user) :
                ret'.list[i].active_signing_pubkey = history.hello[1].active]_vars

\* an absent or empty active key
Absent(active) == active = None \/ active = Some(EmptyString)

\* C16 (amended): after hello(u, keys, active) with no disconnect, hello, active
\* or refresh for u since, a snapshot(k) with k in keys taken before the TTL has
\* elapsed contains exactly one status for u; its active_signing_pubkey is the
\* active key given to hello, an absent or empty one being read back as absent.
C16_RoundTripOfLastHello ==
    [][(last'.op = "redis_presence_snapshot" /\ history.op = "redis_presence_hello"
          /\ history.age < TtlSecs /\ last'.key \in history.keys)
       => /\ history.hello # None
          /\ Cardinality(StatusesOf(ret'.list, history.user)) = 1
          /\ \A i \in StatusesOf(ret'.list, history.user) :
                IF Absent(history.hello[1].active)
                THEN ret'.list[i].active_signing_pubkey = None
                ELSE ret'.list[i].active_signing_pubkey = history.hello[1].active]_vars

C16_Witness ==
    /\ last.op = "redis_presence_snapshot"
    /\ history.op = "redis_presence_hello"
    /\ history.age > 0 /\ history.age < TtlSecs
    /\ last.key \in history.keys
    /\ Len(ret.list) = 2
    /\ \E i \in StatusesOf(ret.list, history.user) :
          ret.list[i].active_signing_pubkey # None

\* the observed user's record was written by hello, active or refresh less
\* than ttl_secs ago
Fresh(h) ==
    /\ h.op \in {"redis_presence_hello", "redis_presence_active", "redis_presence_refresh"}
    /\ h.age < TtlSecs

\* C17: a user whose record was not written within the TTL is in no result of
\* snapshot(k); and every user id that snapshot(k) reads from the reverse set
\* of k and whose record is gone is removed from that set by the same call.
C17_StaleUsersDropped ==
    [][last'.op = "redis_presence_snapshot"
       => /\ ~Fresh(history) => StatusesOf(ret'.list, history.user) = {}
          /\ ListSet(last'.user_ids) = SMEMBERS(redis, redis_server_key(last'.key))
          /\ \A u \in ListSet(last'.user_ids) :
                redis_user_key(u) \notin DOMAIN redis.hashes
                => u \notin SMEMBERS(redis', redis_server_key(last'.key))]_vars

C17_Witness ==
    /\ last.op = "redis_presence_snapshot"
    /\ history.op = "redis_presence_hello"
    /\ history.age >= TtlSecs
    /\ history.user \in ListSet(last.user_ids)
    /\ history.user \notin SMEMBERS(redis, redis_server_key(last.key))
    /\ Len(ret.list) = 1

\* C18: while the last call for u is a refresh that listed k and was made at
\* most T/2 seconds ago (refresh repeated at period T/2), every snapshot(k)
\* contains u; when the last call for u is a refresh made more than T seconds
\* ago (no refresh, hello or active since), no snapshot contains u.
C18_RefreshKeepsAlive ==
    [][(last'.op = "redis_presence_snapshot" /\ history.op = "redis_presence_refresh")
       => /\ (history.age <= TtlSecs \div 2 /\ last'.key \in history.keys)
                => Cardinality(StatusesOf(ret'.list, history.user)) = 1
          /\ history.age > TtlSecs => StatusesOf(ret'.list, history.user) = {}]_vars

C18_Witness ==
    /\ last.op = "redis_presence_snapshot"
    /\ history.op = "redis_presence_refresh"
    /\ history.age > 0 /\ history.age = TtlSecs \div 2
    /\ last.key \in history.keys
    /\ StatusesOf(ret.list, history.user) # {}

\* C20: disconnect(u, keys) deletes the record of u and removes u from the
\* reverse set of every listed key; while that disconnect is the last call for
\* u, no snapshot(k) of a listed k contains u.
C20_DisconnectRemoves ==
    [][/\ (last'.op = "redis_presence_disconnect" /\ last'.user = history'.user)
          => /\ redis_user_key(last'.user) \notin DOMAIN redis'.hashes
             /\ \A k \in history'.keys :
                   last'.user \notin SMEMBERS(redis', redis_server_key(k))
       /\ (last'.op = "redis_presence_snapshot" /\ history.op = "redis_presence_disconnect"
             /\ last'.key \in history.keys)
          => StatusesOf(ret'.list, history.user) = {}]_vars

C20_Witness ==
    /\ last.op = "redis_presence_snapshot"
    /\ history.op = "redis_presence_disconnect"
    /\ last.key \in history.keys
    /\ Len(ret.list) = 1
    /\ \E k \in PubkeyStrings \ history.keys :
          history.user \in SMEMBERS(redis, redis_server_key(k))

\* a hello/active/disconnect/refresh call with commands executed and commands
\* still to execute
MidBatch(call) == call.op # "redis_presence_snapshot" /\ call.begun

\* C19: no command of a snapshot (SMEMBERS, HGET, SREM) executes between two
\* commands of the same hello, active, disconnect or refresh call.
C19_BatchIsIndivisible ==
    [][(last'.op \in {"SMEMBERS", "HGET", "SREM"} /\ last'.of = "redis_presence_snapshot")
       => \A c \in DOMAIN calls.open : ~MidBatch(calls.open[c])]_vars

\* C21: active(u, a) on a user with no record writes the record with the full
\* TTL and changes no reverse set; and while that active (or actives after it)
\* are the last calls for u, so that u has re-announced no key, no snapshot
\* contains u.
C21_ActiveOnAbsentUser ==
    [][/\ (last'.op = "redis_presence_active" /\ last'.user = history.user
             /\ redis_user_key(last'.user) \notin DOMAIN redis.hashes)
          => /\ redis_user_key(last'.user) \in DOMAIN redis'.hashes
             /\ redis'.ttl[redis_user_key(last'.user)] = TtlSecs
             /\ redis'.sets = redis.sets
       /\ (last'.op = "redis_presence_snapshot" /\ history.op = "redis_presence_active"
             /\ history.revived)
          => StatusesOf(ret'.list, history.user) = {}]_vars

\* hello(u1, ks1, a1); ...; hello(un, ksn, an), one after the other
RECURSIVE HelloEach(_, _, _)
HelloEach(db, ttl_secs, users) ==
    IF users = <<>> THEN db
    ELSE HelloEach(redis_presence_hello(db, ttl_secs, Head(users)[1], Head(users)[2],
                                        Head(users)[3]),
                   ttl_secs, Tail(users))

\* C22: from every store, refresh(users) leaves the user records, their TTLs
\* and the reverse sets as the hello calls of its entries, made in order from
\* that store, leave them; on the empty list it changes nothing; it returns Ok.
C22_RefreshIsBatchedHello ==
    /\ \A users \in BatchLists :
          redis_presence_refresh(redis, TtlSecs, users) = HelloEach(redis, TtlSecs, users)
    /\ redis_presence_refresh(redis, TtlSecs, <<>>) = redis
    /\ last.op = "redis_presence_refresh" => ret.ok

C22_Witness ==
    /\ last.op = "redis_presence_refresh"
    /\ last.len = 2
    /\ Cardinality(DOMAIN redis.ttl) = 2
    /\ \E k \in PubkeyStrings : Cardinality(SMEMBERS(redis, redis_server_key(k))) = 2

\* ------------------------------------------------------------------------
\* Properties of ConnectionTracker
\* ------------------------------------------------------------------------
\* the count of ip, a missing entry counting as 0
PerIp(t, ip) == IF ip \in DOMAIN t.per_ip THEN t.per_ip[ip] ELSE 0

\* C23: try_register(ip) returns Err exactly when max_total > 0 and total >=
\* max_total, or max_per_ip > 0 and per_ip[ip] >= max_per_ip; otherwise it
\* returns Ok and adds exactly 1 to total and to per_ip[ip].
C23_TryRegisterResult ==
    [][last'.op = "try_register"
       => LET over == \/ (tracker.max_total > 0 /\ tracker.total >= tracker.max_total)
                      \/ (tracker.max_per_ip > 0
                            /\ PerIp(tracker, last'.ip) >= tracker.max_per_ip)
          IN /\ ret'.ok = ~over
             /\ ~over => /\ tracker'.total = tracker.total + 1
                         /\ PerIp(tracker', last'.ip) = PerIp(tracker, last'.ip) + 1
                         /\ \A ip \in Ips \ {last'.ip} :
                               PerIp(tracker', ip) = PerIp(tracker, ip)
                         /\ tracker'.max_total = tracker.max_total
                         /\ tracker'.max_per_ip = tracker.max_per_ip]_vars

C23_Witness ==
    /\ last.op = "try_register"
    /\ ~ret.ok
    /\ tracker.max_total = 0
    /\ tracker.max_per_ip > 1
    /\ PerIp(tracker, last.ip) = tracker.max_per_ip
    /\ tracker.total > tracker.max_per_ip

\* the caps: total <= max_total when max_total > 0, and every per_ip count
\* <= max_per_ip when max_per_ip > 0
WithinCaps(t) ==
    /\ t.max_total > 0 => t.total <= t.max_total
    /\ t.max_per_ip > 0 => \A ip \in DOMAIN t.per_ip : t.per_ip[ip] <= t.max_per_ip

\* C24 (as stated): the caps hold in every reachable state; and with
\* max_per_ip = m > 0, of the attempts made from one ip one after the other
\* with no close in between, exactly the first m are accepted.
C24_CapsAndFirstM ==
    [][/\ WithinCaps(tracker')
       /\ (last'.op = "try_register" /\ last'.nth > 0 /\ tracker.max_per_ip > 0)
          => (ret'.ok <=> last'.nth <= tracker.max_per_ip)]_vars

\* C24 (amended): the caps hold in every reachable state; and with
\* max_per_ip = m > 0 and a total cap that m connections do not reach
\* (max_total = 0 or max_total >= m), of the attempts made from one ip on a new
\* tracker one after the other with no close in between, exactly the first m
\* are accepted.
C24_CapsAndFirstMUnderTotal ==
    [][/\ WithinCaps(tracker')
       /\ (last'.op = "try_register" /\ last'.nth > 0 /\ tracker.max_per_ip > 0
             /\ (tracker.max_total = 0 \/ tracker.max_total >= tracker.max_per_ip))
          => (ret'.ok <=> last'.nth <= tracker.max_per_ip)]_vars

C24_Witness ==
    /\ last.op = "try_register"
    /\ last.nth = tracker.max_per_ip + 1
    /\ tracker.max_per_ip > 1
    /\ ~ret.ok
    /\ tracker.total = tracker.max_per_ip
    /\ WithinCaps(tracker)

\* C25: a failing try_register(ip) leaves the tracker unchanged (total and the
\* whole per_ip map, no entry made for ip), and no reachable state has a per_ip
\* entry whose count is 0.
C25_FailedRegisterChangesNothing ==
    [][/\ (last'.op = "try_register" /\ ~ret'.ok) => tracker' = tracker
       /\ \A ip \in DOMAIN tracker'.per_ip : tracker'.per_ip[ip] # 0]_vars

C25_Witness ==
    /\ last.op = "try_register"
    /\ ~ret.ok
    /\ last.ip \notin DOMAIN tracker.per_ip
    /\ tracker.max_total > 0
    /\ tracker.total = tracker.max_total
    /\ tracker.per_ip # << >>

\* C26: unregister(ip) never takes total or a per_ip count below 0; a total of
\* 0 stays 0, and for an ip without per_ip entry the per_ip map is unchanged.
C26_UnregisterSaturates ==
    [][last'.op = "unregister" =>
         /\ tracker'.total >= 0
         /\ \A ip \in DOMAIN tracker'.per_ip : tracker'.per_ip[ip] >= 0
         /\ tracker.total = 0 => tracker'.total = 0
         /\ last'.ip \notin DOMAIN tracker.per_ip => tracker'.per_ip = tracker.per_ip]_vars

C26_Witness ==
    /\ last.op = "unregister"
    /\ last.total = 0
    /\ ~last.had
    /\ tracker.total = 0
    /\ tracker.per_ip = << >>

\* ------------------------------------------------------------------------
\* Properties of the audio capture
\* ------------------------------------------------------------------------
\* C27: stop_capture called after a successful start_capture terminates: once
\* it has taken the state and dropped the stored senders, the processing
\* thread leaves its loop, the join returns, and stop_capture returns with
\* AUDIO_CAPTURE_STATE None and the state mutex released.
C27_StopCaptureTerminates ==
    (capture.pc = "stop_join")
        ~> (/\ capture.pc \notin {"stop_lock", "stop_join"}
            /\ capture.state = "None"
            /\ ~capture.locked)

\* ------------------------------------------------------------------------
\* Properties of the socket-close cleanup
\* ------------------------------------------------------------------------
\* C28: the cleanup of a closing connection c unregisters only peers whose
\* current binding is c: a peer p with peers[p].conn_id = c2 # c is, after the
\* close of c, still in peers, in servers[server_id] and (if it was) in
\* peer_senders, and validate_peer_connection(p, c2) is still true.
C28_CloseKeepsPeersOfOtherConns ==
    [][last'.op = "socket_close" =>
         \A p \in DOMAIN peers :
            peers[p].conn_id # last'.conn =>
               /\ p \in DOMAIN peers'
               /\ peers'[p] = peers[p]
               /\ peers[p].server_id \in DOMAIN servers'
               /\ p \in servers'[peers[p].server_id]
               /\ p \in DOMAIN peer_senders => p \in DOMAIN peer_senders'
               /\ validate_peer_connection(SignalingState', p, peers[p].conn_id)]_vars

\* ------------------------------------------------------------------------
\* Properties of the snapshot repair
\* ------------------------------------------------------------------------
\* C29: snapshots interleaved with hello/refresh calls that list k never evict
\* a live user: once every call has completed, a user u whose record has not
\* expired is a member of the reverse set of k and is in the next snapshot(k).
C29_RepairKeepsLiveUsers ==
    calls.open = EmptyMap =>
       \A u \in UserIds, k \in PubkeyStrings :
          redis_user_key(u) \in DOMAIN redis.hashes =>
             /\ u \in SMEMBERS(redis, redis_server_key(k))
             /\ \A user_ids \in IterOrders(SMEMBERS(redis, redis_server_key(k))) :
                   StatusesOf(redis_presence_snapshot_ret(redis, k, user_ids), u) # {}

\* ------------------------------------------------------------------------
\* Frame of handle_voice_disconnect
\* ------------------------------------------------------------------------
\* C30: handle_voice_disconnect(c) leaves every VoicePeer whose conn_id differs
\* from c in place: in every chat the entries with conn_id # c are the same, in
\* the same order, before and after the call.
C30_DisconnectKeepsOtherConns ==
    [][last'.op = "handle_voice_disconnect" =>
         \A key \in DOMAIN voice_chats :
            SelectSeq(ChatList(voice_chats', key), LAMBDA p : p.conn_id # last'.conn)
               = SelectSeq(voice_chats[key], LAMBDA p : p.conn_id # last'.conn)]_vars

\* ------------------------------------------------------------------------
\* Invariants of the voice chat lists and of the tracker's counts
\* ------------------------------------------------------------------------
\* C31: each peer_id appears at most once in each (server_id, chat_id) list, so
\* after a successful unregister_voice_peer(p, s, ch) no entry with peer_id p
\* remains in chat (s, ch).
C31_OneEntryPerPeer ==
    [][/\ \A key \in DOMAIN voice_chats' :
             \A i, j \in 1..Len(voice_chats'[key]) :
                 i # j => voice_chats'[key][i].peer_id # voice_chats'[key][j].peer_id
       /\ (last'.op = "unregister_voice_peer" /\ ret'.user # NoUser)
          => LET l == ChatList(voice_chats', <<last'.server, last'.chat>>) IN
             \A i \in 1..Len(l) : l[i].peer_id # last'.peer]_vars

RECURSIVE SumOver(_, _)
\* the sum of the counts m[k] for k in ks
SumOver(m, ks) ==
    IF ks = {} THEN 0
    ELSE LET k == CHOOSE x \in ks : TRUE IN m[k] + SumOver(m, ks \ {k})

\* C32: after any sequence of try_register and unregister calls, total equals
\* the sum of all per_ip counts.
C32_TotalIsSumOfPerIp ==
    tracker.total = SumOver(tracker.per_ip, DOMAIN tracker.per_ip)

====
